---- MODULE Spec2Model ----
(***************************************************************************)
(* Model of the worker pool of hello-web/src/lib.rs: ThreadPool::new,      *)
(* ThreadPool::execute, Drop for ThreadPool and the loop of Worker::new.   *)
(*                                                                         *)
(* One owner thread constructs the pool and later tears it down; its       *)
(* position is mainpc.  Every worker thread has a position wpc[id].  A     *)
(* call of execute may arrive whenever the pool value exists, whatever the *)
(* value of job_sender is at that moment; what happens to the call is      *)
(* decided by the code of execute.  A job is opaque to the pool: it        *)
(* returns, panics, or never returns (JobKinds).                           *)
(*                                                                         *)
(* BlogSpec is the Post of oop_blog/src/lib.rs: a content string and a     *)
(* boxed State (Draft, PendingReview, Published) behind an Option, driven  *)
(* by add_text, request_review, approve, reject and content.               *)
(***************************************************************************)
EXTENDS FiniteSets, Integers, Sequences, TLC

\* ---- bounds ----
MaxThreads == 2
MaxJobs == 3
MaxContentLen == 3
HistoryLen == 5
MaxN == 5

JobKinds == {"ok", "panic", "hang"}
WorkerIds == 0 .. (MaxThreads - 1)
JobIds == 1 .. MaxJobs

VARIABLES
    mainpc,        \* position of the thread that owns the pool
    num_threads,   \* argument of ThreadPool::new
    senders,       \* number of live Sender<Job> endpoints of the channel
    queue,         \* jobs in the channel, oldest first
    job_sender,    \* ThreadPool.job_sender: "Some" | "None"
    workers,       \* ThreadPool.workers: Seq of [id, thread]
    wpc,           \* position of each worker thread
    mutex,         \* holder of the Mutex around the Receiver, or NoHolder
    cur,           \* the job a worker took with its last successful recv
    joinIdx,       \* index into workers of the for-loop of drop
    joined,        \* ids of the workers whose join() has returned, in order
    attempts,      \* number of calls of execute so far
    jobKind,       \* what the closure of each submitted job does
    execOutcome,   \* how each call of execute ended
    jobState,      \* "none" | "queued" | "running" | "done" | "panicked" | "lost"
    handed,        \* successful recvs, in order: Seq of [job, worker]
    completed,     \* jobs that returned, in order of return
    counter,       \* shared counter, incremented by every job that returns
    senderDrops,   \* how many times a Sender was taken out of job_sender and dropped
    poisoned,      \* the Mutex is poisoned: a thread panicked while holding its guard
    state,         \* Post.state: << >> for None, << s >> for Some(s)
    content,       \* Post.content, a string as the sequence of its characters
    shown,         \* what the last call of Post::content returned, if it is the last call
    lastOp,        \* the last method called on the Post, with its argument
    approveCalls,  \* calls of approve on a PendingReview post since the last
                   \* request_review on a Draft post
    history,       \* the last HistoryLen calls of request_review, approve and
                   \* reject on the Post, each with the state it found
    tpost,         \* types_blog: the value the caller holds (DraftPost,
                   \* PendingReviewPost or Post)
    tmaybe,        \* types_blog: variant returned by the last approve, if any
    tshown,        \* types_blog: what the last call of Post::content returned
    fpc,           \* fibonacci: position in main
    fib_n,         \* fibonacci: the parsed input n
    last_two,      \* fibonacci: the array last_two, index 1 for last_two[0]
    fib_i,         \* fibonacci: the value the range 2..=n yields next
    out            \* fibonacci: the number printed for each input over the runs
                   \* so far, NotPrinted where none was

poolVars == << mainpc, num_threads, senders, queue, job_sender, workers, wpc, mutex,
           cur, joinIdx, joined, attempts, jobKind, execOutcome, jobState,
           handed, completed, counter, senderDrops, poisoned >>

blogVars == << state, content, shown, lastOp, approveCalls, history >>

typesVars == << tpost, tmaybe, tshown >>

fibVars == << fpc, fib_n, last_two, fib_i, out >>

vars == << poolVars, blogVars, typesVars, fibVars >>

NoHolder == -1
NoJob == 0


\* ---- std::sync::mpsc and Option, as the code uses them ----

\* mpsc::channel(): one Sender, one Receiver, nothing queued (lib.rs:27)
NewChannelSenders == 1

\* Sender::send on a connected channel appends at the tail (lib.rs:50)
Enqueue_AtHead(q, job) == << job >> \o q
Enqueue(q, job) == Append(q, job)

\* Receiver::recv hands out the oldest queued job (lib.rs:77)
Message(q) == Head(q)

\* ... and removes it from the channel (lib.rs:77)
Dequeue_Keep(q) == q
Dequeue(q) == Tail(q)

\* Receiver::recv returns Err only when nothing is queued and every Sender is
\* gone; with nothing queued and a live Sender it blocks (lib.rs:77, 79, 82)
RecvDisconnected_IgnoresQueue(q, s) == s = 0
RecvDisconnected_IgnoresSender(q, s) == q = << >>
RecvDisconnected(q, s) == q = << >> /\ s = 0

\* the receiver is shared through Arc clones: the local `receiver` of new and
\* one clone moved into every worker closure (lib.rs:31, 33, 75)
ThreadLive(st) == st \in {"lock", "recv", "run"}
ReceiverAlive_OwnerKeepsArc(pc, wp) == TRUE
ReceiverAlive(pc, wp) == pc = "new_spawn" \/ \E w \in WorkerIds : ThreadLive(wp[w])

\* execute: job_sender.as_ref().expect("channel closed").send(job).unwrap()
\* (lib.rs:47-51)
ExecuteOutcome_NoExpect(js, recvAlive) ==
    IF ~recvAlive THEN "panic_send_error" ELSE "sent"
ExecuteOutcome_ErrValue(js, recvAlive) ==
    IF js = "None" \/ ~recvAlive THEN "err" ELSE "sent"
ExecuteOutcome(js, recvAlive) ==
    IF js = "None" THEN "panic_channel_closed"
    ELSE IF ~recvAlive THEN "panic_send_error"
    ELSE "sent"

\* assert!(num_threads != 0) (lib.rs:25)
AssertHolds_Missing(n) == TRUE
AssertHolds(n) == n # 0

\* for id in 0..num_threads: the id of the next worker pushed (lib.rs:32-33)
NextWorkerId(ws) == Len(ws)

\* the for-loop of new ends after num_threads pushes (lib.rs:32)
SpawnDone_OffByOne(ws, n) == Len(ws) >= n - 1
SpawnDone(ws, n) == Len(ws) >= n

\* ThreadPool { workers, job_sender: Some(job_queue_tx) } (lib.rs:36-39)
InitialJobSender == "Some"

\* JoinHandle::join returns once the thread has ended (lib.rs:62)
ThreadEnded_NoWait(st) == TRUE
ThreadEnded(st) == st \in {"terminated", "panicked"}

\* join returns Err for a thread that ended by panicking, and unwrap then
\* panics in the joining thread (lib.rs:62)
JoinUnwrapPanics_Swallowed(st) == FALSE
JoinUnwrapPanics(st) == st = "panicked"

\* mpsc::channel() is the unbounded channel: send never waits for room,
\* however many jobs are queued (lib.rs:27, 50)
ChannelHasRoom_Bounded(q) == Len(q) < 1
ChannelHasRoom(q) == TRUE

\* the worker is at the head of its loop, about to lock (lib.rs:75-77)
AtLoopHead_JobDetached(st) == st \in {"lock", "run"}
AtLoopHead(st) == st = "lock"

\* dropping the Sender taken out of job_sender leaves one Sender fewer; a
\* take() that finds None drops nothing (lib.rs:57)
SendersAfterTake_NotDropped(js, s) == s
SendersAfterTake(js, s) == IF js = "Some" THEN s - 1 ELSE s

\* `for worker in &mut self.workers` starts at the first worker pushed and
\* ends after the last (lib.rs:59)
FirstJoinIdx_LastWorker(ws) == Len(ws)
FirstJoinIdx(ws) == 1

LoopExhausted_SkipsLast(i, ws) == i >= Len(ws)
LoopExhausted(i, ws) == i > Len(ws)

\* a panic of job() is not caught: it unwinds out of the closure and the
\* thread ends (lib.rs:75-86)
ThreadAfterJobPanic_Caught == "lock"
ThreadAfterJobPanic == "panicked"

\* Mutex::lock returns only while no other thread holds the guard (lib.rs:77)
MutexFree_NoExclusion(m) == TRUE
MutexFree(m) == m = NoHolder

\* the MutexGuard is a temporary of `let message = ...;` and is dropped at
\* the end of that statement, before job() is called (lib.rs:76-77)
GuardAfterRecv_HeldDuringJob(w) == w
GuardAfterRecv(w) == NoHolder

\* whatever guard a thread still holds is dropped when it leaves the scope,
\* by finishing the loop body or by unwinding (lib.rs:75-86)
MutexAfterScope(m, w) == IF m = w THEN NoHolder ELSE m

\* a guard dropped while its thread is panicking poisons the Mutex
PoisonedAfterPanic(p, m, w) == p \/ m = w

\* the jobs still queued when the last Arc of the receiver goes away are
\* dropped with the channel and never run
LostJobs(q, js) == [j \in JobIds |-> IF \E i \in 1..Len(q) : q[i] = j THEN "lost" ELSE js[j]]

\* ---- oop_blog: the states and their methods (oop_blog/src/lib.rs) ----

\* the texts handed to add_text
Texts == {<< >>, << "a" >>, << "b" >>}

Draft == [tag |-> "Draft"]
PendingReview(n) == [tag |-> "PendingReview", approvals |-> n]
Published == [tag |-> "Published"]

\* String::new() (oop_blog lib.rs:16)
EmptyString == << >>

\* State::add_text: Draft pushes the text, the trait default does nothing
\* (oop_blog lib.rs:51, 62-64)
State_add_text_AnyState(s, text, c) == c \o text
State_add_text(s, text, c) ==
    IF s.tag = "Draft" THEN c \o text ELSE c

\* State::content: Published returns post.content, the trait default ""
\* (oop_blog lib.rs:54-56, 116-118)
State_content_DefaultLeaks(s, c) == c
State_content(s, c) ==
    IF s.tag = "Published" THEN c ELSE EmptyString

\* State::request_review (oop_blog lib.rs:66-68, 84-86, 108-110)
State_request_review_Resets(s) ==
    IF s.tag \in {"Draft", "PendingReview"} THEN PendingReview(0) ELSE s
State_request_review(s) ==
    IF s.tag = "Draft" THEN PendingReview(0) ELSE s

\* State::approve; approvals is a u8 (oop_blog lib.rs:70-72, 88-98, 112-114)
State_approve_SingleApproval(s) ==
    IF s.tag = "PendingReview"
       THEN IF s.approvals = 0 THEN Published
            ELSE PendingReview((s.approvals + 1) % 256)
       ELSE s
State_approve(s) ==
    IF s.tag = "PendingReview"
       THEN IF s.approvals = 1 THEN Published
            ELSE PendingReview((s.approvals + 1) % 256)
       ELSE s

\* State::reject (oop_blog lib.rs:74-76, 100-102, 120-122)
State_reject_Ignored(s) == s
State_reject_Unpublishes(s) ==
    IF s.tag \in {"PendingReview", "Published"} THEN Draft ELSE s
State_reject(s) ==
    IF s.tag = "PendingReview" THEN Draft ELSE s

\* the calls of request_review, approve and reject made on the Post, newest
\* last, cut to the last HistoryLen
Remember(h, e) ==
    IF Len(h) < HistoryLen THEN Append(h, e) ELSE Append(Tail(h), e)

\* the state a call finds in Post.state
Found(st) == IF st = << >> THEN "None" ELSE st[1].tag

\* no call of Post::content has been made since the post last changed
NotShown == [read |-> FALSE, text |-> << >>]

\* ---- types_blog: one type per state (types_blog/src/lib.rs) ----

\* Post::new() -> DraftPost (types_blog lib.rs:16-20)
TypesPost_new == [kind |-> "DraftPost", content |-> EmptyString]

\* Post::content (types_blog lib.rs:22-24)
TypesPost_content(p) == p.content

\* DraftPost::add_text: self.content.push_str(text) (types_blog lib.rs:28-30)
DraftPost_add_text(p, text) == [p EXCEPT !.content = p.content \o text]

\* DraftPost::request_review (types_blog lib.rs:32-37)
DraftPost_request_review(p) ==
    [kind |-> "PendingReviewPost", approvals |-> 0, content |-> p.content]

\* PendingReviewPost::approve -> MaybeApproved (types_blog lib.rs:40-61)
PendingReviewPost_approve_ThreeApprovals(p) ==
    IF p.approvals < 2
       THEN [variant |-> "PendingApproval",
             value |-> [p EXCEPT !.approvals = (p.approvals + 1) % 256]]
       ELSE [variant |-> "Approved",
             value |-> [kind |-> "Post", content |-> p.content]]
PendingReviewPost_approve(p) ==
    IF p.approvals < 1
       THEN [variant |-> "PendingApproval",
             value |-> [p EXCEPT !.approvals = (p.approvals + 1) % 256]]
       ELSE [variant |-> "Approved",
             value |-> [kind |-> "Post", content |-> p.content]]

\* PendingReviewPost::reject (types_blog lib.rs:63-67)
PendingReviewPost_reject(p) == [kind |-> "DraftPost", content |-> p.content]

\* ---- exercises/fibonacci (fibonacci/src/main.rs) ----

\* no run has printed a number for this input yet
NotPrinted == -1

\* usize::saturating_sub (main.rs:18)
SaturatingSub(a, b) == IF a >= b THEN a - b ELSE 0

\* last_two[i] with Rust's indices from 0 (main.rs:18, 24-26, 29)
At(arr, i) == arr[i + 1]

\* new = last_two[0] + last_two[1]; for n <= MaxN the sum stays far below
\* 2^128, so the u128 addition is exact (main.rs:24)
NextTerm(arr) == At(arr, 0) + At(arr, 1)

\* ---- initial state: before ThreadPool::new is called; Post::new() of both
\* blog crates; fibonacci's main about to read its input ----
Init ==
    /\ mainpc = "start"
    /\ num_threads = 0
    /\ senders = 0
    /\ queue = << >>
    /\ job_sender = "None"
    /\ workers = << >>
    /\ wpc = [w \in WorkerIds |-> "unspawned"]
    /\ mutex = NoHolder
    /\ cur = [w \in WorkerIds |-> NoJob]
    /\ joinIdx = 0
    /\ joined = << >>
    /\ attempts = 0
    /\ jobKind = [j \in JobIds |-> "none"]
    /\ execOutcome = [j \in JobIds |-> "none"]
    /\ jobState = [j \in JobIds |-> "none"]
    /\ handed = << >>
    /\ completed = << >>
    /\ counter = 0
    /\ senderDrops = 0
    /\ poisoned = FALSE
    /\ state = << Draft >>
    /\ content = EmptyString
    /\ shown = NotShown
    /\ lastOp = [op |-> "new", text |-> << >>]
    /\ approveCalls = 0
    /\ history = << >>
    /\ tpost = TypesPost_new
    /\ tmaybe = "none"
    /\ tshown = NotShown
    /\ fpc = "read"
    /\ fib_n = 0
    /\ last_two = << 0, 1 >>
    /\ fib_i = 2
    /\ out = [k \in 0..MaxN |-> NotPrinted]

\* ---- ThreadPool::new (lib.rs:24-40) ----

\* the call and its assertion
NewAssert ==
    /\ mainpc = "start"
    /\ \E n \in 0..MaxThreads :
          /\ num_threads' = n
          /\ mainpc' = IF AssertHolds(n) THEN "new_channel" ELSE "panicked_assert"
    /\ UNCHANGED << blogVars, typesVars, fibVars >>
    /\ UNCHANGED << senders, queue, job_sender, workers, wpc, mutex, cur, joinIdx,
                    joined, attempts, jobKind, execOutcome, jobState, handed,
                    completed, counter, senderDrops, poisoned >>

\* mpsc::channel, Vec::with_capacity, Arc::new(Mutex::new(..))
NewChannel ==
    /\ mainpc = "new_channel"
    /\ senders' = NewChannelSenders
    /\ queue' = << >>
    /\ mainpc' = "new_spawn"
    /\ UNCHANGED << blogVars, typesVars, fibVars >>
    /\ UNCHANGED << num_threads, job_sender, workers, wpc, mutex, cur, joinIdx,
                    joined, attempts, jobKind, execOutcome, jobState, handed,
                    completed, counter, senderDrops, poisoned >>

\* one iteration of the for-loop: Worker::new spawns the thread and the
\* worker is pushed (lib.rs:32-34, 74-91)
NewSpawn ==
    /\ mainpc = "new_spawn"
    /\ ~SpawnDone(workers, num_threads)
    /\ LET id == NextWorkerId(workers) IN
          /\ workers' = Append(workers, [id |-> id, thread |-> "Some"])
          /\ wpc' = [wpc EXCEPT ![id] = "lock"]
    /\ UNCHANGED << blogVars, typesVars, fibVars >>
    /\ UNCHANGED << mainpc, num_threads, senders, queue, job_sender, mutex, cur,
                    joinIdx, joined, attempts, jobKind, execOutcome, jobState,
                    handed, completed, counter, senderDrops, poisoned >>

\* the pool value is built and returned; the local `receiver` is dropped
NewReturn ==
    /\ mainpc = "new_spawn"
    /\ SpawnDone(workers, num_threads)
    /\ job_sender' = InitialJobSender
    /\ mainpc' = "idle"
    /\ UNCHANGED << blogVars, typesVars, fibVars >>
    /\ UNCHANGED << num_threads, senders, queue, workers, wpc, mutex, cur, joinIdx,
                    joined, attempts, jobKind, execOutcome, jobState, handed,
                    completed, counter, senderDrops, poisoned >>

\* ---- ThreadPool::execute (lib.rs:42-52) ----

\* a call of execute with a closure of kind k; the call is numbered in
\* submission order.  expect panics when job_sender is None, unwrap panics
\* when send fails because the Receiver is gone, otherwise the job is queued.
Execute(k) ==
    /\ mainpc \in {"idle", "drop_join", "drop_joining", "dropped"}
    /\ attempts < MaxJobs
    /\ LET job == attempts + 1
           outcome == ExecuteOutcome(job_sender, ReceiverAlive(mainpc, wpc))
       IN  /\ attempts' = job
           /\ execOutcome' = [execOutcome EXCEPT ![job] = outcome]
           /\ IF outcome = "sent"
                 THEN /\ ChannelHasRoom(queue)
                      /\ queue' = Enqueue(queue, job)
                      /\ jobKind' = [jobKind EXCEPT ![job] = k]
                      /\ jobState' = [jobState EXCEPT ![job] = "queued"]
                 ELSE UNCHANGED << queue, jobKind, jobState >>
    /\ UNCHANGED << blogVars, typesVars, fibVars >>
    /\ UNCHANGED << mainpc, num_threads, senders, job_sender, workers, wpc, mutex,
                    cur, joinIdx, joined, handed, completed, counter, senderDrops,
                    poisoned >>

\* ---- impl Drop for ThreadPool (lib.rs:55-66) ----

\* drop(self.job_sender.take()): the Sender, if there is one, is dropped
DropTakeSender_JoinFirst ==
    /\ mainpc = "idle"
    /\ joinIdx' = 1
    /\ mainpc' = "drop_join"
    /\ UNCHANGED << blogVars, typesVars, fibVars >>
    /\ UNCHANGED << num_threads, senders, queue, job_sender, workers, wpc, mutex, cur,
                    joined, attempts, jobKind, execOutcome, jobState, handed,
                    completed, counter, senderDrops, poisoned >>
DropTakeSender ==
    /\ mainpc = "idle"
    /\ job_sender' = "None"
    /\ senders' = SendersAfterTake(job_sender, senders)
    /\ senderDrops' = IF job_sender = "Some" THEN senderDrops + 1 ELSE senderDrops
    /\ joinIdx' = FirstJoinIdx(workers)
    /\ mainpc' = "drop_join"
    /\ UNCHANGED << blogVars, typesVars, fibVars >>
    /\ UNCHANGED << num_threads, queue, workers, wpc, mutex, cur, joined, attempts,
                    jobKind, execOutcome, jobState, handed, completed, counter,
                    poisoned >>

\* the head of one iteration of `for worker in &mut self.workers`:
\* worker.thread.take(); with Some(thread) the join follows
DropTakeThread ==
    /\ mainpc = "drop_join"
    /\ ~LoopExhausted(joinIdx, workers)
    /\ IF workers[joinIdx].thread = "Some"
          THEN /\ workers' = [workers EXCEPT ![joinIdx].thread = "None"]
               /\ mainpc' = "drop_joining"
               /\ UNCHANGED joinIdx
          ELSE /\ joinIdx' = joinIdx + 1
               /\ UNCHANGED << workers, mainpc >>
    /\ UNCHANGED << blogVars, typesVars, fibVars >>
    /\ UNCHANGED << num_threads, senders, queue, job_sender, wpc, mutex, cur, joined,
                    attempts, jobKind, execOutcome, jobState, handed, completed,
                    counter, senderDrops, poisoned >>

\* thread.join().unwrap(): blocks until the thread has ended; a thread that
\* panicked makes join return Err and unwrap panic in the joining thread
DropJoin ==
    /\ mainpc = "drop_joining"
    /\ LET id == workers[joinIdx].id IN
          /\ ThreadEnded(wpc[id])
          /\ joined' = Append(joined, id)
          /\ IF JoinUnwrapPanics(wpc[id])
                THEN /\ mainpc' = "panicked_join"
                     /\ UNCHANGED joinIdx
                ELSE /\ mainpc' = "drop_join"
                     /\ joinIdx' = joinIdx + 1
    /\ UNCHANGED << blogVars, typesVars, fibVars >>
    /\ UNCHANGED << num_threads, senders, queue, job_sender, workers, wpc, mutex,
                    cur, attempts, jobKind, execOutcome, jobState, handed,
                    completed, counter, senderDrops, poisoned >>

\* the for-loop is exhausted and drop returns
DropReturn ==
    /\ mainpc = "drop_join"
    /\ LoopExhausted(joinIdx, workers)
    /\ mainpc' = "dropped"
    /\ UNCHANGED << blogVars, typesVars, fibVars >>
    /\ UNCHANGED << num_threads, senders, queue, job_sender, workers, wpc, mutex,
                    cur, joinIdx, joined, attempts, jobKind, execOutcome, jobState,
                    handed, completed, counter, senderDrops, poisoned >>

\* ---- the thread of Worker::new (lib.rs:75-86) ----

\* receiver.lock().expect("mutex poisoned"): blocks while another worker
\* holds the guard; on a poisoned Mutex lock returns Err and expect panics
WorkerLock(w) ==
    /\ AtLoopHead(wpc[w])
    /\ MutexFree(mutex)
    /\ IF poisoned
          THEN /\ wpc' = [wpc EXCEPT ![w] = "panicked"]
               /\ UNCHANGED mutex
               /\ IF ReceiverAlive(mainpc, wpc')
                     THEN UNCHANGED << queue, jobState >>
                     ELSE /\ jobState' = LostJobs(queue, jobState)
                          /\ queue' = << >>
          ELSE /\ mutex' = w
               /\ wpc' = [wpc EXCEPT ![w] = "recv"]
               /\ UNCHANGED << queue, jobState >>
    /\ UNCHANGED << blogVars, typesVars, fibVars >>
    /\ UNCHANGED << mainpc, num_threads, senders, job_sender, workers, cur,
                    joinIdx, joined, attempts, jobKind, execOutcome,
                    handed, completed, counter, senderDrops, poisoned >>

\* recv() returns Ok(job); the guard, a temporary of the `let` statement, is
\* released at its end; the worker prints and calls job()
WorkerRecvOk(w) ==
    /\ wpc[w] = "recv"
    /\ mutex = w
    /\ queue # << >>
    /\ LET job == Message(queue) IN
          /\ queue' = Dequeue(queue)
          /\ cur' = [cur EXCEPT ![w] = job]
          /\ handed' = Append(handed, [job |-> job, worker |-> w])
          /\ jobState' = [jobState EXCEPT ![job] = "running"]
    /\ mutex' = GuardAfterRecv(w)
    /\ wpc' = [wpc EXCEPT ![w] = "run"]
    /\ UNCHANGED << blogVars, typesVars, fibVars >>
    /\ UNCHANGED << mainpc, num_threads, senders, job_sender, workers, joinIdx,
                    joined, attempts, jobKind, execOutcome, completed, counter,
                    senderDrops, poisoned >>

\* recv() returns Err: the worker prints, breaks out of the loop and its
\* thread returns, dropping its Arc of the receiver
WorkerRecvErr(w) ==
    /\ wpc[w] = "recv"
    /\ mutex = w
    /\ RecvDisconnected(queue, senders)
    /\ mutex' = NoHolder
    /\ wpc' = [wpc EXCEPT ![w] = "terminated"]
    /\ UNCHANGED << blogVars, typesVars, fibVars >>
    /\ UNCHANGED << mainpc, num_threads, senders, queue, job_sender, workers, cur,
                    joinIdx, joined, attempts, jobKind, execOutcome, jobState,
                    handed, completed, counter, senderDrops, poisoned >>

\* job() returns: its effect (one increment of the shared counter) is done
\* and the worker goes round the loop
WorkerJobReturn(w) ==
    /\ wpc[w] = "run"
    /\ jobKind[cur[w]] = "ok"
    /\ counter' = counter + 1
    /\ completed' = Append(completed, cur[w])
    /\ jobState' = [jobState EXCEPT ![cur[w]] = "done"]
    /\ wpc' = [wpc EXCEPT ![w] = "lock"]
    /\ mutex' = MutexAfterScope(mutex, w)
    /\ UNCHANGED << blogVars, typesVars, fibVars >>
    /\ UNCHANGED << mainpc, num_threads, senders, queue, job_sender, workers,
                    cur, joinIdx, joined, attempts, jobKind, execOutcome, handed,
                    senderDrops, poisoned >>

\* job() panics: the panic unwinds out of the loop and ends the thread; the
\* closure's Arc of the receiver is dropped, and with the last Arc the
\* channel and the jobs still in it
WorkerJobPanic(w) ==
    /\ wpc[w] = "run"
    /\ jobKind[cur[w]] = "panic"
    /\ wpc' = [wpc EXCEPT ![w] = ThreadAfterJobPanic]
    /\ LET js == [jobState EXCEPT ![cur[w]] = "panicked"] IN
          IF ReceiverAlive(mainpc, wpc')
             THEN /\ jobState' = js
                  /\ UNCHANGED queue
             ELSE /\ jobState' = LostJobs(queue, js)
                  /\ queue' = << >>
    /\ poisoned' = PoisonedAfterPanic(poisoned, mutex, w)
    /\ mutex' = MutexAfterScope(mutex, w)
    /\ UNCHANGED << blogVars, typesVars, fibVars >>
    /\ UNCHANGED << mainpc, num_threads, senders, job_sender, workers, cur,
                    joinIdx, joined, attempts, jobKind, execOutcome, handed,
                    completed, counter, senderDrops >>

Next ==
    \/ NewAssert
    \/ NewChannel
    \/ NewSpawn
    \/ NewReturn
    \/ \E k \in JobKinds : Execute(k)
    \/ DropTakeSender
    \/ DropTakeThread
    \/ DropJoin
    \/ DropReturn
    \/ \E w \in WorkerIds : WorkerLock(w)
    \/ \E w \in WorkerIds : WorkerRecvOk(w)
    \/ \E w \in WorkerIds : WorkerRecvErr(w)
    \/ \E w \in WorkerIds : WorkerJobReturn(w)
    \/ \E w \in WorkerIds : WorkerJobPanic(w)

Spec == Init /\ [][Next]_vars

\* ---- the methods of Post (oop_blog lib.rs:20-47) ----

\* self.state.as_ref().unwrap().add_text(text, &mut self.content)
Post_add_text(text) ==
    /\ state # << >>
    /\ Len(State_add_text(state[1], text, content)) <= MaxContentLen
    /\ content' = State_add_text(state[1], text, content)
    /\ lastOp' = [op |-> "add_text", text |-> text]
    /\ shown' = NotShown
    /\ UNCHANGED << state, approveCalls, history >>

\* self.state.as_ref().unwrap().content(self)
Post_content ==
    /\ state # << >>
    /\ shown' = [read |-> TRUE, text |-> State_content(state[1], content)]
    /\ lastOp' = [op |-> "content", text |-> << >>]
    /\ UNCHANGED << state, content, approveCalls, history >>

\* if let Some(s) = self.state.take() { self.state = Some(s.request_review()) }
Post_request_review ==
    /\ state' = IF state # << >> THEN << State_request_review(state[1]) >> ELSE << >>
    /\ approveCalls' = IF state # << >> /\ state[1].tag = "Draft" THEN 0 ELSE approveCalls
    /\ lastOp' = [op |-> "request_review", text |-> << >>]
    /\ history' = Remember(history, [op |-> "request_review", from |-> Found(state)])
    /\ shown' = NotShown
    /\ UNCHANGED content

\* if let Some(s) = self.state.take() { self.state = Some(s.approve()) }
Post_approve ==
    /\ state' = IF state # << >> THEN << State_approve(state[1]) >> ELSE << >>
    /\ approveCalls' = IF state # << >> /\ state[1].tag = "PendingReview"
                          THEN approveCalls + 1 ELSE approveCalls
    /\ lastOp' = [op |-> "approve", text |-> << >>]
    /\ history' = Remember(history, [op |-> "approve", from |-> Found(state)])
    /\ shown' = NotShown
    /\ UNCHANGED content

\* if let Some(s) = self.state.take() { self.state = Some(s.reject()) }
Post_reject ==
    /\ state' = IF state # << >> THEN << State_reject(state[1]) >> ELSE << >>
    /\ lastOp' = [op |-> "reject", text |-> << >>]
    /\ history' = Remember(history, [op |-> "reject", from |-> Found(state)])
    /\ shown' = NotShown
    /\ UNCHANGED << content, approveCalls >>

\* a caller that holds only the oop_blog Post
add_text(text) == Post_add_text(text) /\ UNCHANGED << poolVars, typesVars, fibVars >>

content_call == Post_content /\ UNCHANGED << poolVars, typesVars, fibVars >>

request_review == Post_request_review /\ UNCHANGED << poolVars, typesVars, fibVars >>

approve == Post_approve /\ UNCHANGED << poolVars, typesVars, fibVars >>

reject == Post_reject /\ UNCHANGED << poolVars, typesVars, fibVars >>

BlogNext ==
    \/ \E text \in Texts : add_text(text)
    \/ content_call
    \/ request_review
    \/ approve
    \/ reject

BlogSpec == Init /\ [][BlogNext]_vars

\* ---- one caller driving both blog implementations with the same calls ----
\* the calls are those the types of types_blog allow on the value at hand

\* DraftPost::add_text and Post::add_text with the same text
Both_add_text(text) ==
    /\ tpost.kind = "DraftPost"
    /\ tpost' = DraftPost_add_text(tpost, text)
    /\ Post_add_text(text)
    /\ UNCHANGED << tmaybe, tshown >>
    /\ UNCHANGED << poolVars, fibVars >>

\* DraftPost::request_review and Post::request_review
Both_request_review ==
    /\ tpost.kind = "DraftPost"
    /\ tpost' = DraftPost_request_review(tpost)
    /\ Post_request_review
    /\ UNCHANGED << tmaybe, tshown >>
    /\ UNCHANGED << poolVars, fibVars >>

\* PendingReviewPost::approve, the caller going on with the value inside the
\* returned variant, and Post::approve
Both_approve ==
    /\ tpost.kind = "PendingReviewPost"
    /\ tpost' = PendingReviewPost_approve(tpost).value
    /\ tmaybe' = PendingReviewPost_approve(tpost).variant
    /\ Post_approve
    /\ UNCHANGED tshown
    /\ UNCHANGED << poolVars, fibVars >>

\* PendingReviewPost::reject and Post::reject
Both_reject ==
    /\ tpost.kind = "PendingReviewPost"
    /\ tpost' = PendingReviewPost_reject(tpost)
    /\ Post_reject
    /\ UNCHANGED << tmaybe, tshown >>
    /\ UNCHANGED << poolVars, fibVars >>

\* Post::content of types_blog and Post::content of oop_blog
Both_content ==
    /\ tpost.kind = "Post"
    /\ tshown' = [read |-> TRUE, text |-> TypesPost_content(tpost)]
    /\ Post_content
    /\ UNCHANGED << tpost, tmaybe >>
    /\ UNCHANGED << poolVars, fibVars >>

BothNext ==
    \/ \E text \in Texts : Both_add_text(text)
    \/ Both_request_review
    \/ Both_approve
    \/ Both_reject
    \/ Both_content

BothSpec == Init /\ [][BothNext]_vars

\* ---- fibonacci: main, run any number of times (main.rs:3-30) ----

\* read_line, trim, parse: the input is a number k
FibReadLine(k) ==
    /\ fpc = "read"
    /\ fib_n' = k
    /\ fpc' = "branch"
    /\ UNCHANGED << last_two, fib_i, out >>
    /\ UNCHANGED << poolVars, blogVars, typesVars >>

\* if n <= 2 { println!(.., last_two[n.saturating_sub(1)]); return }
FibShortcut ==
    /\ fpc = "branch"
    /\ fib_n <= 2
    /\ out' = [out EXCEPT ![fib_n] = At(last_two, SaturatingSub(fib_n, 1))]
    /\ fpc' = "done"
    /\ UNCHANGED << fib_n, last_two, fib_i >>
    /\ UNCHANGED << poolVars, blogVars, typesVars >>

\* for _ in 2..=n: the range starts at 2
FibEnterLoop ==
    /\ fpc = "branch"
    /\ ~(fib_n <= 2)
    /\ fib_i' = 2
    /\ fpc' = "loop"
    /\ UNCHANGED << fib_n, last_two, out >>
    /\ UNCHANGED << poolVars, blogVars, typesVars >>

\* one iteration of the loop body
FibLoopStep ==
    /\ fpc = "loop"
    /\ fib_i <= fib_n
    /\ last_two' = << At(last_two, 1), NextTerm(last_two) >>
    /\ fib_i' = fib_i + 1
    /\ UNCHANGED << fpc, fib_n, out >>
    /\ UNCHANGED << poolVars, blogVars, typesVars >>

\* the range is exhausted: println!(.., last_two[1])
FibPrint ==
    /\ fpc = "loop"
    /\ fib_i > fib_n
    /\ out' = [out EXCEPT ![fib_n] = At(last_two, 1)]
    /\ fpc' = "done"
    /\ UNCHANGED << fib_n, last_two, fib_i >>
    /\ UNCHANGED << poolVars, blogVars, typesVars >>

\* the program is started again: let mut last_two = [0, 1]
FibRunAgain ==
    /\ fpc = "done"
    /\ last_two' = << 0, 1 >>
    /\ fib_i' = 2
    /\ fpc' = "read"
    /\ UNCHANGED << fib_n, out >>
    /\ UNCHANGED << poolVars, blogVars, typesVars >>

FibNext ==
    \/ \E k \in 0..MaxN : FibReadLine(k)
    \/ FibShortcut
    \/ FibEnterLoop
    \/ FibLoopStep
    \/ FibPrint
    \/ FibRunAgain

FibSpec == Init /\ [][FibNext]_vars

TypeOK ==
    /\ mainpc \in {"start", "panicked_assert", "new_channel", "new_spawn", "idle",
                   "drop_join", "drop_joining", "dropped", "panicked_join"}
    /\ num_threads \in 0..MaxThreads
    /\ senders \in 0..1
    /\ job_sender \in {"Some", "None"}
    /\ Len(workers) <= MaxThreads
    /\ \A w \in WorkerIds :
          wpc[w] \in {"unspawned", "lock", "recv", "run", "terminated", "panicked"}
    /\ mutex \in WorkerIds \cup {NoHolder}
    /\ attempts \in 0..MaxJobs
    /\ poisoned \in BOOLEAN

\* the scheduler runs every thread that can take a step: the owner inside
\* drop, and every worker (std::thread, pre-emptive OS threads)
LiveSpec ==
    /\ Spec
    /\ WF_vars(DropTakeThread \/ DropJoin \/ DropReturn)
    /\ \A w \in WorkerIds :
          WF_vars(WorkerLock(w) \/ WorkerRecvOk(w) \/ WorkerRecvErr(w) \/ WorkerJobReturn(w))

\* ---- properties ----

\* C1: no job is handed out by recv twice, to two workers or twice to the
\* same one, and only jobs that execute queued are ever handed out and run.
C1_ExactlyOnce ==
    /\ \A i, k \in 1..Len(handed) : i # k => handed[i].job # handed[k].job
    /\ \A i \in 1..Len(handed) : execOutcome[handed[i].job] = "sent"
    /\ \A w \in WorkerIds : wpc[w] = "run" =>
          \E i \in 1..Len(handed) : handed[i] = [job |-> cur[w], worker |-> w]
    /\ counter = Len(completed)
    /\ \A i, k \in 1..Len(completed) : i # k => completed[i] # completed[k]

C1_Witness ==
    /\ Len(completed) >= 2
    /\ \E i, k \in 1..Len(handed) : handed[i].worker # handed[k].worker

\* C2: when drop has returned and no submitted job panics or hangs, every
\* job that execute queued has run to completion: the counter equals the
\* number of queued jobs.
C2_DrainOnTeardown ==
    (/\ mainpc = "dropped"
     /\ \A j \in JobIds : execOutcome[j] = "sent" => jobKind[j] = "ok")
    => /\ counter = Cardinality({j \in JobIds : execOutcome[j] = "sent"})
       /\ \A j \in JobIds : execOutcome[j] = "sent" => jobState[j] = "done"

C2_Witness ==
    /\ mainpc = "dropped"
    /\ counter >= 2
    /\ counter = Cardinality({j \in JobIds : execOutcome[j] = "sent"})

\* C3: between the return of new and the start of drop job_sender is Some
\* and the channel has its Sender; drop gives the Sender up once, and the
\* channel is closed whenever a thread handle is taken or joined.
C3_CloseBeforeJoin ==
    /\ mainpc = "idle" => (job_sender = "Some" /\ senders = 1 /\ senderDrops = 0)
    /\ mainpc \in {"drop_join", "drop_joining", "dropped", "panicked_join"}
          => (job_sender = "None" /\ senders = 0 /\ senderDrops = 1)
    /\ (joined # << >> \/ \E i \in 1..Len(workers) : workers[i].thread = "None")
          => (senders = 0 /\ senderDrops = 1)

C3_Witness ==
    /\ mainpc = "drop_joining"
    /\ senderDrops = 1
    /\ joined # << >>

\* C4: once drop has started with every queued job being one that returns,
\* drop eventually returns with the queue empty and every worker Terminated.
C4_TeardownTerminates ==
    (/\ mainpc = "drop_join"
     /\ \A j \in JobIds : execOutcome[j] = "sent" => jobKind[j] = "ok")
    ~> (/\ mainpc = "dropped"
        /\ queue = << >>
        /\ \A i \in 1..Len(workers) : wpc[workers[i].id] = "terminated")

C4_Witness ==
    /\ mainpc = "dropped"
    /\ num_threads = 2
    /\ Len(completed) >= 1
    /\ \A i \in 1..Len(workers) : wpc[workers[i].id] = "terminated"

\* C5: new(0) panics on its assertion with no channel created, no worker
\* spawned and no pool value built.
C5_NewZeroFails ==
    (mainpc # "start" /\ num_threads = 0)
    => /\ mainpc = "panicked_assert"
       /\ senders = 0
       /\ workers = << >>
       /\ job_sender = "None"
       /\ \A w \in WorkerIds : wpc[w] = "unspawned"

C5_Witness == mainpc = "panicked_assert" /\ num_threads = 0

\* C6: for num_threads > 0 new does not fail; the pool it returns holds
\* exactly num_threads workers with ids 0..num_threads-1, each with a live
\* thread, and no step after the return of new changes the number of workers.
C6_WorkerCountFixed ==
    /\ [](/\ num_threads > 0 => mainpc # "panicked_assert"
          /\ mainpc \in {"idle", "drop_join", "drop_joining", "dropped", "panicked_join"}
                => /\ Len(workers) = num_threads
                   /\ \A i \in 1..Len(workers) : workers[i].id = i - 1
          /\ (mainpc = "idle" /\ attempts = 0)
                => \A i \in 1..Len(workers) :
                      workers[i].thread = "Some" /\ ThreadLive(wpc[workers[i].id]))
    /\ [][(mainpc \in {"idle", "drop_join", "drop_joining", "dropped"})
             => (Len(workers') = Len(workers))]_vars

C6_Witness ==
    /\ mainpc = "idle"
    /\ num_threads = 2
    /\ Len(workers) = 2
    /\ attempts >= 2

\* C7: a call of execute that finds job_sender empty fails; its job is not
\* put in the channel, and a job that was refused is never handed to a worker.
C7_SubmitAfterTeardownFails ==
    /\ [][(attempts' = attempts + 1 /\ job_sender = "None")
             => (/\ execOutcome'[attempts'] \in {"panic_channel_closed", "panic_send_error", "err"}
                 /\ queue' = queue
                 /\ jobState' = jobState
                 /\ handed' = handed)]_vars
    /\ [](\A j \in JobIds : execOutcome[j] # "sent" =>
             /\ jobState[j] = "none"
             /\ \A i \in 1..Len(queue) : queue[i] # j
             /\ \A i \in 1..Len(handed) : handed[i].job # j)

C7_Witness ==
    /\ mainpc \in {"drop_join", "drop_joining"}
    /\ \E w \in WorkerIds : ThreadLive(wpc[w])
    /\ \E j \in JobIds : execOutcome[j] = "panic_channel_closed"

\* C8 as stated: a call of execute that finds job_sender empty hands an
\* error value back to its caller and does not panic.
C8_Original ==
    [][(attempts' = attempts + 1 /\ job_sender = "None")
          => (execOutcome'[attempts'] = "err")]_vars

\* C8 as amended: a call of execute that finds job_sender empty panics in the
\* calling thread with "channel closed" (Option::expect); no error value is
\* handed back.
C8_SubmitAfterTeardownPanics ==
    [][(attempts' = attempts + 1 /\ job_sender = "None")
          => (execOutcome'[attempts'] = "panic_channel_closed")]_vars

C8_Witness ==
    /\ mainpc = "dropped"
    /\ \E j \in JobIds : execOutcome[j] = "panic_channel_closed"

\* C9: workers are handed the queued jobs in submission order: the jobs
\* handed out so far are exactly the first queued jobs, in the order of
\* their calls of execute.
C9_FifoHandOff ==
    /\ \A i, k \in 1..Len(handed) : i < k => handed[i].job < handed[k].job
    /\ \A i \in 1..Len(handed) :
          \A a \in JobIds :
             (a < handed[i].job /\ execOutcome[a] = "sent")
                => \E m \in 1..(i - 1) : handed[m].job = a

C9_Witness ==
    /\ Len(handed) >= 3
    /\ \E i, k \in 1..Len(handed) : handed[i].worker # handed[k].worker

\* C10: a worker has at most one job running, and every job it was handed
\* earlier had returned when it was handed the next; with one worker, a job
\* has started only if every job queued before it is done.
C10_PerWorkerSequencing ==
    /\ \A w \in WorkerIds :
          Cardinality({i \in 1..Len(handed) :
                         handed[i].worker = w /\ jobState[handed[i].job] = "running"}) <= 1
    /\ \A i, k \in 1..Len(handed) :
          (i < k /\ handed[i].worker = handed[k].worker)
             => jobState[handed[i].job] = "done"
    /\ num_threads = 1 =>
          \A a, b \in JobIds :
             (/\ a < b
              /\ execOutcome[a] = "sent"
              /\ jobState[b] \in {"running", "done", "panicked"})
                => jobState[a] = "done"

C10_Witness ==
    /\ num_threads = 1
    /\ jobState[1] = "done"
    /\ jobState[2] = "running"

\* C11: a step in which a job panics ends only the thread that ran it: the
\* position and current job of every other worker, the workers of the pool,
\* the Mutex and its poison flag are unchanged; the Mutex is never poisoned,
\* a worker is in the panicked state only through a job of its own that
\* panicked, and no thread that has ended (or was never spawned) is live
\* again once new has returned.
C11_PanicIsolation ==
    /\ [][\A w \in WorkerIds :
             (wpc[w] = "run" /\ wpc'[w] = "panicked")
                => (/\ \A v \in WorkerIds \ {w} : wpc'[v] = wpc[v] /\ cur'[v] = cur[v]
                    /\ workers' = workers
                    /\ mutex' = mutex
                    /\ poisoned' = poisoned)]_vars
    /\ [](~poisoned)
    /\ [](\A w \in WorkerIds : wpc[w] = "panicked" =>
             (cur[w] # NoJob /\ jobState[cur[w]] = "panicked"))
    /\ [][\A w \in WorkerIds :
             (mainpc \notin {"start", "new_channel", "new_spawn"} /\ ~ThreadLive(wpc[w]))
                => ~ThreadLive(wpc'[w])]_vars

C11_Witness ==
    \E w, v \in WorkerIds :
       /\ wpc[w] = "panicked"
       /\ wpc[v] = "recv"
       /\ mutex = v
       /\ queue # << >>
       /\ ~poisoned

\* C12: when the join of drop returns for a worker whose thread ended by a
\* panicking job, the thread in drop panics; drop never returns normally
\* from a pool with a panicked worker, and a panic of drop always comes from
\* the panicked worker it joined last.
C12_TeardownSurfacesFailure ==
    /\ [][(/\ mainpc = "drop_joining"
           /\ joined' # joined
           /\ wpc[workers[joinIdx].id] = "panicked")
             => (mainpc' = "panicked_join")]_vars
    /\ [](mainpc = "dropped" =>
             \A i \in 1..Len(workers) : wpc[workers[i].id] = "terminated")
    /\ [](mainpc = "panicked_join" =>
             (joined # << >> /\ wpc[joined[Len(joined)]] = "panicked"))

C12_Witness ==
    /\ mainpc = "panicked_join"
    /\ joined # << >>
    /\ \E j \in JobIds : jobState[j] = "panicked"

\* C13 as stated: on a pool whose teardown has not begun every call of
\* execute puts its job in the channel, whatever the state of the workers.
C13_Original ==
    [][(attempts' = attempts + 1 /\ mainpc = "idle")
          => (/\ execOutcome'[attempts'] = "sent"
              /\ queue' = Append(queue, attempts'))]_vars

\* C13 as amended: on a pool whose teardown has not begun a call of execute
\* never waits: it can always take its step, whatever the workers do and
\* however many jobs are queued.  While some worker thread has not ended the
\* job is appended to the channel and no worker changes state; once every
\* worker thread has ended by a panic, send fails, unwrap panics and nothing
\* is queued.
C13_NonBlockingSubmit ==
    /\ []((mainpc = "idle" /\ attempts < MaxJobs) => ENABLED (\E k \in JobKinds : Execute(k)))
    /\ [][(/\ attempts' = attempts + 1
           /\ mainpc = "idle"
           /\ \E w \in WorkerIds : wpc[w] \in {"lock", "recv", "run"})
             => (/\ execOutcome'[attempts'] = "sent"
                 /\ queue' = Append(queue, attempts')
                 /\ wpc' = wpc
                 /\ mutex' = mutex)]_vars
    /\ [][(/\ attempts' = attempts + 1
           /\ mainpc = "idle"
           /\ ~ \E w \in WorkerIds : wpc[w] \in {"lock", "recv", "run"})
             => (/\ execOutcome'[attempts'] = "panic_send_error"
                 /\ queue' = queue)]_vars

C13_Witness ==
    /\ mainpc = "idle"
    /\ num_threads = 2
    /\ \A i \in 1..Len(workers) : wpc[workers[i].id] = "run"
    /\ Len(queue) >= 1
    /\ execOutcome[3] = "sent"

\* C14: whatever calls came before, Post::content returns the empty string
\* unless the post is Published, and then it returns the stored content.
C14_ContentVisibility ==
    shown.read =>
       /\ state # << >>
       /\ shown.text = (IF state[1].tag = "Published" THEN content ELSE << >>)

C14_Witness ==
    /\ shown.read
    /\ state[1].tag = "Published"
    /\ shown.text # << >>
    /\ Len(content) >= 2

\* C15: a post becomes Published exactly by the second call of approve made
\* while it is PendingReview since the last request_review on a Draft; the
\* first such approve does not publish, and approve on a Draft changes
\* nothing.
C15_TwoApprovals ==
    /\ [][(state[1].tag # "Published" /\ state'[1].tag = "Published")
             <=> (/\ lastOp'.op = "approve"
                  /\ state[1].tag = "PendingReview"
                  /\ approveCalls' = 2)]_vars
    /\ [][(lastOp'.op = "approve" /\ state[1].tag = "PendingReview" /\ approveCalls' = 1)
             => (state'[1].tag = "PendingReview")]_vars
    /\ [][(lastOp'.op = "approve" /\ state[1].tag = "Draft")
             => (state' = state /\ approveCalls' = approveCalls)]_vars

C15_Witness ==
    /\ state[1].tag = "Published"
    /\ lastOp.op = "approve"
    /\ approveCalls = 2

\* C16: a call of add_text on a Draft post appends its text to the content;
\* on a PendingReview post, with any number of approvals, and on a Published
\* post it changes neither the content nor the state.
C16_AddTextOnlyInDraft ==
    [][(lastOp'.op = "add_text")
          => (/\ state' = state
              /\ content' = (IF state[1].tag = "Draft"
                               THEN content \o lastOp'.text
                               ELSE content))]_vars

C16_Witness ==
    /\ lastOp.op = "add_text"
    /\ lastOp.text # << >>
    /\ state[1] = [tag |-> "PendingReview", approvals |-> 1]
    /\ content # << >>

\* C17: at most one worker at a time is inside the receive statement, and
\* it is the holder of the Mutex; a worker that runs a job does not hold the
\* Mutex; the step that ends the receive statement, with a job or with Err,
\* releases the guard.
C17_ReceiveSerialized ==
    /\ [](Cardinality({w \in WorkerIds : wpc[w] = "recv"}) <= 1)
    /\ [](\A w \in WorkerIds : (wpc[w] = "recv") <=> (mutex = w))
    /\ [](\A w \in WorkerIds : wpc[w] = "run" => mutex # w)
    /\ [][\A w \in WorkerIds :
             (wpc[w] = "recv" /\ wpc'[w] # "recv") => (mutex' = NoHolder)]_vars

C17_Witness ==
    \E w, v \in WorkerIds :
       /\ wpc[w] = "recv"
       /\ mutex = w
       /\ wpc[v] = "run"
       /\ handed # << >>

\* C18: a job running on one worker keeps no other worker from receiving: a
\* worker at the head of its loop can lock the receiver whenever no worker is
\* inside the receive statement, and a worker inside it can take a queued
\* job, whatever the other workers run.  (The state with two workers running
\* jobs at once is C18_Witness.)
C18_ParallelExecution ==
    /\ \A v \in WorkerIds :
          (wpc[v] = "lock" /\ \A u \in WorkerIds : wpc[u] # "recv")
             => ENABLED WorkerLock(v)
    /\ \A v \in WorkerIds :
          (wpc[v] = "recv" /\ queue # << >>) => ENABLED WorkerRecvOk(v)

C18_Witness ==
    \E w, v \in WorkerIds :
       /\ w # v
       /\ wpc[w] = "run"
       /\ wpc[v] = "run"
       /\ cur[w] # cur[v]
       /\ jobState[cur[w]] = "running"
       /\ jobState[cur[v]] = "running"

\* C19: when drop has returned, the jobs that completed are exactly the jobs
\* that execute queued, each once, in whatever order.  (A run in which a job
\* queued later completes first is C19_Witness.)
C19_CompletionSet ==
    mainpc = "dropped" =>
       /\ {completed[i] : i \in 1..Len(completed)} = {j \in JobIds : execOutcome[j] = "sent"}
       /\ Len(completed) = Cardinality({j \in JobIds : execOutcome[j] = "sent"})

C19_Witness ==
    /\ mainpc = "dropped"
    /\ num_threads >= 2
    /\ \E i, k \in 1..Len(completed) : i < k /\ completed[i] > completed[k]

\* C20: a worker becomes Terminated only by a step out of the receive
\* statement taken when job_sender has been given up, no Sender is left and
\* the channel is empty; while a worker is Terminated the pool holds no
\* Sender and no job waits in the channel.
C20_WorkerTermination ==
    /\ [][\A w \in WorkerIds :
             (wpc[w] # "terminated" /\ wpc'[w] = "terminated")
                => (/\ wpc[w] = "recv"
                    /\ mutex = w
                    /\ job_sender = "None"
                    /\ senders = 0
                    /\ queue = << >>)]_vars
    /\ [](\A w \in WorkerIds :
             wpc[w] = "terminated"
                => (job_sender = "None" /\ senders = 0 /\ queue = << >>))

C20_Witness ==
    /\ \E w \in WorkerIds : wpc[w] = "terminated"
    /\ \E v \in WorkerIds : wpc[v] = "run"
    /\ Len(completed) >= 1

\* C21 as stated: when drop has finished, by returning or by panicking on a
\* join, every worker's thread handle has been taken and joined and no
\* worker is running a job.
C21_Original ==
    mainpc \in {"dropped", "panicked_join"} =>
       \A i \in 1..Len(workers) :
          /\ workers[i].thread = "None"
          /\ \E k \in 1..Len(joined) : joined[k] = workers[i].id
          /\ wpc[workers[i].id] # "run"

\* C21 as amended: when drop returns normally every worker's handle has been
\* taken and joined and every worker is Terminated; when drop panics on the
\* join of a panicked worker, that holds for the workers up to that one only:
\* the handles of the later workers are still in place, they were not
\* joined, and their threads may still be running jobs.
C21_TeardownJoins ==
    /\ mainpc = "dropped" =>
          \A i \in 1..Len(workers) :
             /\ workers[i].thread = "None"
             /\ joined[i] = workers[i].id
             /\ wpc[workers[i].id] = "terminated"
    /\ mainpc = "panicked_join" =>
          /\ Len(joined) = joinIdx
          /\ wpc[workers[joinIdx].id] = "panicked"
          /\ \A i \in 1..Len(workers) :
                IF i <= joinIdx
                   THEN /\ workers[i].thread = "None"
                        /\ joined[i] = workers[i].id
                        /\ wpc[workers[i].id] \in {"terminated", "panicked"}
                   ELSE workers[i].thread = "Some"

C21_Witness ==
    /\ mainpc = "panicked_join"
    /\ \E i \in 1..Len(workers) :
          /\ workers[i].thread = "Some"
          /\ wpc[workers[i].id] = "run"
          /\ jobKind[cur[workers[i].id]] = "ok"

\* C22: drop joins the workers in the order new pushed them, id 0 first: the
\* k-th join that returned is that of worker k-1; a handle is taken only
\* when the threads of all earlier workers have ended and been joined, and a
\* handle that was taken is never there again.
C22_JoinOrder ==
    /\ [](\A k \in 1..Len(joined) : joined[k] = k - 1 /\ workers[k].id = k - 1)
    /\ [](\A i \in 1..Len(workers) :
             workers[i].thread = "None" =>
                \A m \in 1..(i - 1) :
                   /\ workers[m].thread = "None"
                   /\ wpc[workers[m].id] \in {"terminated", "panicked"}
                   /\ m <= Len(joined))
    /\ [](Len(joined) <= Len(workers))
    /\ [][\A i \in 1..Len(workers) :
             workers[i].thread = "None" => workers'[i].thread = "None"]_vars
    /\ [][Len(joined') \in {Len(joined), Len(joined) + 1}]_vars

C22_Witness ==
    /\ mainpc = "dropped"
    /\ joined = << 0, 1 >>
    /\ Len(completed) >= 2

\* C23: a job that never returns keeps its worker in the running state and
\* keeps drop from returning, for ever; when drop has started and every
\* other queued job is one that returns, eventually every worker is either
\* Terminated or stuck in a job that never returns, and the queue is empty
\* unless no worker is left to drain it.
C23_NoTimeout ==
    /\ [](\A w \in WorkerIds :
             (wpc[w] = "run" /\ jobKind[cur[w]] = "hang") => mainpc # "dropped")
    /\ [][\A w \in WorkerIds :
             (wpc[w] = "run" /\ jobKind[cur[w]] = "hang")
                => (wpc'[w] = "run" /\ cur'[w] = cur[w] /\ jobKind'[cur[w]] = "hang")]_vars
    /\ ((/\ mainpc = "drop_join"
         /\ \A j \in JobIds : execOutcome[j] = "sent" => jobKind[j] \in {"ok", "hang"})
        ~> (/\ \A i \in 1..Len(workers) :
                  \/ wpc[workers[i].id] = "terminated"
                  \/ (wpc[workers[i].id] = "run" /\ jobKind[cur[workers[i].id]] = "hang")
            /\ (queue = << >> \/ \A i \in 1..Len(workers) : wpc[workers[i].id] = "run")))

C23_Witness ==
    /\ mainpc = "drop_joining"
    /\ \E w, v \in WorkerIds :
          /\ wpc[w] = "run"
          /\ jobKind[cur[w]] = "hang"
          /\ wpc[v] = "terminated"
          /\ cur[v] # NoJob
          /\ cur[v] > cur[w]
    /\ queue = << >>

\* C24 as stated: while the pool still holds its Sender, every call of
\* execute enqueues its job without failing, however many worker threads
\* have ended by a panicking job.
C24_Original ==
    [][(attempts' = attempts + 1 /\ job_sender = "Some")
          => (/\ execOutcome'[attempts'] # "panic_send_error"
              /\ Len(queue') = Len(queue) + 1)]_vars

\* C24 as amended: before teardown a worker thread ends only by a panicking
\* job; while fewer than num_threads worker threads have ended that way,
\* execute enqueues the job without failing; once all of them have ended,
\* the last clone of the receiver is gone, send returns an error, unwrap
\* panics in the caller and the job is neither queued nor run.
C24_SubmitNeedsLiveWorker ==
    /\ [](mainpc = "idle" =>
             \A i \in 1..Len(workers) :
                wpc[workers[i].id] \in {"lock", "recv", "run", "panicked"})
    /\ [][(attempts' = attempts + 1 /\ job_sender = "Some")
            => LET ended == {w \in WorkerIds : wpc[w] = "panicked"}
               IN  IF Cardinality(ended) < num_threads
                      THEN /\ execOutcome'[attempts'] = "sent"
                           /\ queue' = Append(queue, attempts')
                           /\ jobState'[attempts'] = "queued"
                      ELSE /\ execOutcome'[attempts'] = "panic_send_error"
                           /\ queue' = queue
                           /\ jobState' = jobState]_vars
    /\ [](\A j \in JobIds :
             execOutcome[j] = "panic_send_error" => jobState[j] = "none")

C24_Witness ==
    /\ mainpc = "idle"
    /\ num_threads = 2
    /\ \A i \in 1..Len(workers) : wpc[workers[i].id] = "panicked"
    /\ execOutcome[1] = "sent"
    /\ execOutcome[2] = "sent"
    /\ execOutcome[3] = "panic_send_error"

\* C25 as stated: when teardown has ended, by return or by panic, every
\* non-panicking job that execute accepted has been executed.
C25_Original ==
    mainpc \in {"dropped", "panicked_join"}
       => \A j \in JobIds :
             (execOutcome[j] = "sent" /\ jobKind[j] = "ok") => jobState[j] = "done"

\* C25 as amended: a panicking job can cause other jobs to be lost.  An
\* accepted job is handed to a worker at most once; it is dropped unexecuted
\* exactly when every worker thread ended by a panic while it was still
\* queued, so in a single-worker pool every job queued behind a panicking
\* one is lost; when all worker threads have ended, a non-panicking job that
\* was accepted has either been executed exactly once or been lost that way.
C25_PanicLosesQueuedJobs ==
    /\ \A a, b \in 1..Len(handed) : handed[a].job = handed[b].job => a = b
    /\ \A j \in JobIds :
          jobState[j] = "lost"
             => /\ \A i \in 1..Len(workers) : wpc[workers[i].id] = "panicked"
                /\ \A i \in 1..Len(handed) : handed[i].job # j
                /\ \A i \in 1..Len(completed) : completed[i] # j
    /\ num_threads = 1
          => \A j, k \in JobIds :
                (jobState[j] = "panicked" /\ k > j /\ execOutcome[k] = "sent")
                   => jobState[k] = "lost"
    /\ (/\ mainpc \in {"dropped", "panicked_join"}
        /\ \A i \in 1..Len(workers) : ~ThreadLive(wpc[workers[i].id]))
          => \A j \in JobIds :
                (execOutcome[j] = "sent" /\ jobKind[j] = "ok")
                   => \/ /\ jobState[j] = "done"
                         /\ Cardinality({i \in 1..Len(completed) : completed[i] = j}) = 1
                      \/ jobState[j] = "lost"

C25_Witness ==
    /\ mainpc = "panicked_join"
    /\ num_threads = 1
    /\ jobState[1] = "done"
    /\ jobState[2] = "panicked"
    /\ jobKind[3] = "ok"
    /\ jobState[3] = "lost"

\* C26: reject on a PendingReview post gives a Draft post, and the next
\* request_review starts again from zero approvals: in every PendingReview
\* state approvals is 0 or 1 and counts the approve calls since that
\* request_review, a post becomes Published only by the second of them, and
\* after request_review on a Draft post, approve, reject, request_review,
\* approve the post is PendingReview with one approval, not Published.
C26_RejectResetsReview ==
    /\ [](state # << >> /\ state[1].tag = "PendingReview"
            => (state[1].approvals \in {0, 1} /\ state[1].approvals = approveCalls))
    /\ [][(state[1].tag = "PendingReview" /\ lastOp'.op = "reject")
            => state' = << Draft >>]_vars
    /\ [][(state[1].tag = "Draft" /\ lastOp'.op = "request_review")
            => state' = << PendingReview(0) >>]_vars
    /\ [][(state[1].tag # "Published" /\ state'[1].tag = "Published")
            => (/\ lastOp'.op = "approve"
                /\ state = << PendingReview(1) >>
                /\ approveCalls' = 2)]_vars
    /\ [](Len(history) >= 5 =>
            LET h == SubSeq(history, Len(history) - 4, Len(history))
            IN  (/\ h[1] = [op |-> "request_review", from |-> "Draft"]
                 /\ h[2].op = "approve"
                 /\ h[3].op = "reject"
                 /\ h[4].op = "request_review"
                 /\ h[5].op = "approve")
                   => state = << PendingReview(1) >>)

C26_Witness ==
    /\ Len(history) >= 5
    /\ LET h == SubSeq(history, Len(history) - 4, Len(history))
       IN  /\ h[1] = [op |-> "request_review", from |-> "Draft"]
           /\ h[2] = [op |-> "approve", from |-> "PendingReview"]
           /\ h[3] = [op |-> "reject", from |-> "PendingReview"]
           /\ h[4] = [op |-> "request_review", from |-> "Draft"]
           /\ h[5] = [op |-> "approve", from |-> "PendingReview"]
    /\ state = << PendingReview(1) >>
    /\ lastOp.op = "approve"

\* C27: once the post is Published no call changes Post.state or
\* Post.content, and every later call of content returns that same text.
C27_PublishedAbsorbing ==
    /\ [][state[1].tag = "Published"
            => (state' = state /\ content' = content)]_vars
    /\ [](state[1].tag = "Published" /\ shown.read => shown.text = content)

C27_Witness ==
    /\ state = << Published >>
    /\ content # EmptyString
    /\ Len(history) >= 3
    /\ history[Len(history)] = [op |-> "reject", from |-> "Published"]
    /\ history[Len(history) - 1].from = "Published"
    /\ lastOp.op = "add_text"
    /\ lastOp.text # << >>

\* C28: approve and reject leave a Draft post as it is, request_review
\* leaves a PendingReview post as it is, approvals included; request_review,
\* approve and reject never change the content; Post.state is never None.
C28_NoOpTransitions ==
    /\ [][(state[1].tag = "Draft" /\ lastOp'.op \in {"approve", "reject"})
            => state' = state]_vars
    /\ [][(state[1].tag = "PendingReview" /\ lastOp'.op = "request_review")
            => state' = state]_vars
    /\ [][lastOp'.op \in {"request_review", "approve", "reject"}
            => content' = content]_vars
    /\ [](state # << >>)

C28_Witness ==
    /\ state = << PendingReview(1) >>
    /\ content # EmptyString
    /\ Len(history) >= 3
    /\ history[Len(history)] = [op |-> "request_review", from |-> "PendingReview"]
    /\ history[Len(history) - 1] = [op |-> "approve", from |-> "PendingReview"]
    /\ \E i \in 1..Len(history) : history[i] = [op |-> "approve", from |-> "Draft"]
    /\ \E i \in 1..Len(history) : history[i] = [op |-> "reject", from |-> "Draft"]

\* C29: after every sequence of calls that the types of types_blog allow,
\* made on both implementations, the oop_blog Post is in the state that
\* corresponds to the types_blog value (Draft for DraftPost, PendingReview
\* with the same approvals for PendingReviewPost, Published for Post), both
\* store the same content, approve of types_blog returns Approved exactly
\* when the oop_blog Post becomes Published, and content returns the same
\* text on both.
C29_ImplementationsAgree ==
    /\ [](/\ state # << >>
          /\ (tpost.kind = "DraftPost") = (state[1].tag = "Draft")
          /\ (tpost.kind = "PendingReviewPost") = (state[1].tag = "PendingReview")
          /\ (tpost.kind = "Post") = (state[1].tag = "Published")
          /\ tpost.kind = "PendingReviewPost" => tpost.approvals = state[1].approvals
          /\ tpost.content = content
          /\ (tmaybe = "Approved") = (state[1].tag = "Published")
          /\ tshown.read => (shown.read /\ shown.text = tshown.text))
    /\ [][lastOp'.op = "approve"
            => /\ (tmaybe' = "Approved") = (state'[1].tag = "Published")
               /\ (tmaybe' = "PendingApproval") = (state'[1].tag = "PendingReview")]_vars

C29_Witness ==
    /\ tmaybe = "Approved"
    /\ tpost.kind = "Post"
    /\ state = << Published >>
    /\ tpost.content = content
    /\ content # EmptyString
    /\ \E i \in 1..Len(history) : history[i] = [op |-> "reject", from |-> "PendingReview"]
    /\ tshown.read
    /\ tshown.text = content

\* C30 as stated: the numbers printed for the inputs n, n-1 and n-2 satisfy
\* out(n) = out(n-1) + out(n-2) for every n >= 3.
C30_Original ==
    \A k \in 3..MaxN :
       (out[k] # NotPrinted /\ out[k - 1] # NotPrinted /\ out[k - 2] # NotPrinted)
          => out[k] = out[k - 1] + out[k - 2]

====
